---- MODULE Spec2Model ----
(***************************************************************************)
(* State-machine model of apps/ui/src/routes/__layout.svelte: the page     *)
(* loader (load) of the application shell and the settings route handlers  *)
(* (listAllSettings, saveSettings, checkDomain, saveSSHKey, deleteSSHKey,  *)
(* deleteCertificates, setDockerRegistry, addDockerRegistry,               *)
(* deleteDockerRegistry) acting on the relational store.                   *)
(*                                                                         *)
(* Conventions.  Row ids are naturals: 0 stands for the id '0' of the      *)
(* default registry, created rows take the next value of nextId (a cuid).  *)
(* Team ids are the strings of the code.  createdAt/updatedAt columns are  *)
(* not modelled.  A handler that awaits several calls takes an input       *)
(* "fail": 0 when no call throws, k when the k-th awaited call throws.     *)
(***************************************************************************)
EXTENDS Integers, Sequences, FiniteSets, TLC

\* ------------------------------------------------------------------ bounds
\* rows created by saveSSHKey and addDockerRegistry together
MaxCreated == 1
\* saveSSHKey requests in flight at the same time (SpecSSH)
MaxInflight == 2
\* rows created by the interleaved saveSSHKey requests (SpecSSH)
MaxKeys == 2
\* saveSettings requests (SpecSettings)
MaxSavers == 2
MaxHops == 2
MaxState == 3

\* ------------------------------------------------------------ input domains
Teams == {"0", "1"}
\* request bodies of saveSSHKey
SSHKeyBodies ==
    { [name |-> "a", privateKey |-> "k1"],
      [name |-> "b", privateKey |-> "k2"],
      [name |-> "a", privateKey |-> "k2"] }
PrivateKeys == {b.privateKey : b \in SSHKeyBodies}
\* request bodies of setDockerRegistry and addDockerRegistry (username, password)
RegistryCreds ==
    { [username |-> "u1", password |-> ""],
      [username |-> "u2", password |-> "p1"] }
Plaintexts == PrivateKeys \cup ({c.password : c \in RegistryCreds} \ {""})
Ids == 0 .. (MaxCreated + 1)
Savers == 1 .. MaxSavers
\* request bodies of saveSettings; '' and 0 are the falsy fqdn and ports
SettingsBodies ==
    { [doNotTrack |-> FALSE, fqdn |-> "a.io", isAPIDebuggingEnabled |-> TRUE,
       isRegistrationEnabled |-> TRUE, dualCerts |-> TRUE, minPort |-> 8000,
       maxPort |-> 8100, isAutoUpdateEnabled |-> TRUE, isDNSCheckEnabled |-> FALSE,
       DNSServers |-> "1.1.1.1", proxyDefaultRedirect |-> "a.io/404"],
      [doNotTrack |-> TRUE, fqdn |-> "", isAPIDebuggingEnabled |-> FALSE,
       isRegistrationEnabled |-> FALSE, dualCerts |-> FALSE, minPort |-> 0,
       maxPort |-> 0, isAutoUpdateEnabled |-> FALSE, isDNSCheckEnabled |-> TRUE,
       DNSServers |-> "8.8.8.8", proxyDefaultRedirect |-> "b.io/404"],
      [doNotTrack |-> FALSE, fqdn |-> "c.io", isAPIDebuggingEnabled |-> FALSE,
       isRegistrationEnabled |-> TRUE, dualCerts |-> FALSE, minPort |-> 7000,
       maxPort |-> 0, isAutoUpdateEnabled |-> TRUE, isDNSCheckEnabled |-> TRUE,
       DNSServers |-> "", proxyDefaultRedirect |-> ""] }
Slots == 1 .. MaxInflight

VARIABLES
    sshKeys,            \* SshKey rows
    certificates,       \* Certificate rows
    proxyFiles,         \* ids whose <id>-key.pem / <id>-cert.pem exist in coolify-proxy
    dockerRegistries,   \* DockerRegistry rows
    applications,       \* application id -> dockerRegistryId
    nextId,             \* next generated row id
    setting,            \* the Setting row
    pending,            \* saveSSHKey requests between findMany and create
    submittedKey,       \* history: row id -> private key submitted for it
    submittedPassword,  \* history: row id -> password last submitted for it
    thrown,             \* history: what was thrown inside the last handler
    reply,              \* outcome of the last handler
    saving,             \* saveSettings requests between their awaited calls
    sentry,             \* Sentry.init has been called
    isDev,              \* the server runs in development mode
    configuredDomains,  \* domains that applications and services already use
    check,              \* history: the last checkDomain request
    token,              \* the browser has a 'token' cookie
    page,               \* history: the last run of load
    hops,               \* history: redirects of load followed since the last navigation
    listening,          \* onMount has registered the 'start-service' handler
    startup,            \* $status.service.startup: serviceId -> state
    lastState           \* history: serviceId -> state of its last 'start-service' message

storeVars == <<sshKeys, certificates, proxyFiles, dockerRegistries, applications, nextId, setting>>
historyVars == <<submittedKey, submittedPassword>>
\* the state the store handlers (SSH keys, certificates, registries) leave alone
settingsVars == <<saving, sentry>>
domainVars == <<isDev, configuredDomains, check>>
shellVars == <<token, page, hops>>
statusVars == <<listening, startup, lastState>>
outside == <<settingsVars, domainVars, shellVars, statusVars>>
vars == <<storeVars, pending, historyVars, thrown, reply, outside>>

\* ------------------------------------------------------- library functions
Undefined == "undefined"
NoError == [status |-> "none", message |-> "none"]

\* lib/common encrypt: the ciphertext of a non-empty text
encrypt(text) == "enc(" \o text \o ")"

\* lib/common decrypt: the text a ciphertext was made from
decrypt(hash) ==
    IF \E p \in Plaintexts : encrypt(p) = hash
    THEN CHOOSE p \in Plaintexts : encrypt(p) = hash
    ELSE "garbage"

\* lib/common errorHandler({ status, message }): the translated error
errorHandler(e) ==
    [status  |-> IF e.status = Undefined THEN "500" ELSE e.status,
     message |-> IF e.message = Undefined THEN "Unknown error." ELSE e.message]

\* what a failing store call, shell command or DNS call throws
Failure == [status |-> Undefined, message |-> "call failed"]
\* prisma update() of a row that does not exist
RecordNotFound == [status |-> Undefined, message |-> "Record to update not found."]
NameUsed == [status |-> Undefined, message |-> "Name already used. Choose another one please."]

\* the history of the rows that are still stored
Forget(history, ids) == [i \in DOMAIN history \cap ids |-> history[i]]

\* ---------------------------------------------------------------- replies
\* reply.code(201).send()
Reply201(op, teamId) == [op |-> op, teamId |-> teamId, code |-> "201", body |-> <<>>]
\* return <value>
ReplyValue(op, teamId, value) == [op |-> op, teamId |-> teamId, code |-> "200", body |-> value]
\* a handler whose catch block lets the exception through
CatchRethrow(op, teamId, e) == [op |-> op, teamId |-> teamId, code |-> "rejected", body |-> e]

\* catch ({ status, message }) { return errorHandler({ status, message }) }
Catch(op, teamId, e) ==
    [op |-> op, teamId |-> teamId, code |-> "error",
     body |-> errorHandler([status |-> e.status, message |-> e.message])]

NoReply == [op |-> "none", teamId |-> "none", code |-> "none", body |-> <<>>]

\* ------------------------------------------------------------------ SSH keys
\* prisma.sshKey.findMany({ where: { name } })
FindKeysByName(name) == {k \in sshKeys : k.name = name}

\* prisma.sshKey.create({ data: { name, privateKey, team: { connect: { id: teamId } } } })
CreateKey(id, teamId, name, encryptedSSHKey) ==
    sshKeys \cup {[id |-> id, name |-> name, privateKey |-> encryptedSSHKey, teamId |-> teamId]}

\* saveSSHKey run without another request in between
saveSSHKey(teamId, name, privateKey, fail) ==
    /\ nextId < 2 + MaxCreated
    /\ \A p \in Slots : pending[p].pc = "idle"
    /\ IF fail = 1
       THEN /\ thrown' = Failure
            /\ reply' = Catch("saveSSHKey", teamId, Failure)
            /\ UNCHANGED <<sshKeys, nextId, submittedKey>>
       ELSE IF FindKeysByName(name) # {}
       THEN /\ thrown' = NameUsed
            /\ reply' = Catch("saveSSHKey", teamId, NameUsed)
            /\ UNCHANGED <<sshKeys, nextId, submittedKey>>
       ELSE IF fail = 2
       THEN /\ thrown' = Failure
            /\ reply' = Catch("saveSSHKey", teamId, Failure)
            /\ UNCHANGED <<sshKeys, nextId, submittedKey>>
       ELSE /\ sshKeys' = CreateKey(nextId, teamId, name, encrypt(privateKey))
            /\ nextId' = nextId + 1
            /\ submittedKey' = [i \in DOMAIN submittedKey \cup {nextId} |->
                                   IF i = nextId THEN privateKey ELSE submittedKey[i]]
            /\ thrown' = NoError
            /\ reply' = Reply201("saveSSHKey", teamId)
    /\ UNCHANGED <<outside, certificates, proxyFiles, dockerRegistries, applications, setting,
                   pending, submittedPassword>>

\* saveSSHKey up to its first await: the request of slot p calls
\* prisma.sshKey.findMany({ where: { name } }) and keeps what it found
saveSSHKeyFind(p, teamId, name, privateKey, fail) ==
    /\ pending[p].pc = "idle"
    /\ nextId < 2 + MaxKeys
    /\ IF fail = 1
       THEN /\ thrown' = Failure
            /\ reply' = Catch("saveSSHKey", teamId, Failure)
            /\ UNCHANGED pending
       ELSE /\ pending' = [pending EXCEPT ![p] =
                  [pc |-> "found", teamId |-> teamId, name |-> name,
                   privateKey |-> privateKey, found |-> FindKeysByName(name) # {}]]
            /\ UNCHANGED <<thrown, reply>>
    /\ UNCHANGED <<outside, storeVars, historyVars>>

\* saveSSHKey after findMany resolved: the length check, encrypt and
\* prisma.sshKey.create of the request of slot p
saveSSHKeyCreate(p, fail) ==
    /\ pending[p].pc = "found"
    /\ pending' = [pending EXCEPT ![p] =
          [pc |-> "idle", teamId |-> "none", name |-> "none",
           privateKey |-> "none", found |-> FALSE]]
    /\ IF pending[p].found
       THEN /\ thrown' = NameUsed
            /\ reply' = Catch("saveSSHKey", pending[p].teamId, NameUsed)
            /\ UNCHANGED <<sshKeys, nextId, submittedKey>>
       ELSE IF fail = 1
       THEN /\ thrown' = Failure
            /\ reply' = Catch("saveSSHKey", pending[p].teamId, Failure)
            /\ UNCHANGED <<sshKeys, nextId, submittedKey>>
       ELSE /\ sshKeys' = CreateKey(nextId, pending[p].teamId, pending[p].name,
                                    encrypt(pending[p].privateKey))
            /\ nextId' = nextId + 1
            /\ submittedKey' = [i \in DOMAIN submittedKey \cup {nextId} |->
                                   IF i = nextId THEN pending[p].privateKey
                                   ELSE submittedKey[i]]
            /\ thrown' = NoError
            /\ reply' = Reply201("saveSSHKey", pending[p].teamId)
    /\ UNCHANGED <<outside, certificates, proxyFiles, dockerRegistries, applications,
                   setting, submittedPassword>>

\* deleteMany without the team in its where clause
DeleteKeysAnyTeam(id, teamId) == {k \in sshKeys : k.id # id}

\* prisma.sshKey.deleteMany({ where: { id, teamId } })
DeleteKeys(id, teamId) == {k \in sshKeys : ~(k.id = id /\ k.teamId = teamId)}

deleteSSHKey(teamId, id, fail) ==
    /\ IF fail = 1
       THEN /\ thrown' = Failure
            /\ reply' = Catch("deleteSSHKey", teamId, Failure)
            /\ UNCHANGED <<sshKeys, submittedKey>>
       ELSE /\ sshKeys' = DeleteKeys(id, teamId)
            /\ submittedKey' = Forget(submittedKey, {k.id : k \in DeleteKeys(id, teamId)})
            /\ thrown' = NoError
            /\ reply' = Reply201("deleteSSHKey", teamId)
    /\ UNCHANGED <<outside, certificates, proxyFiles, dockerRegistries, applications, nextId,
                   setting, pending, submittedPassword>>

\* -------------------------------------------------------------- certificates
\* x509.subject.split('\n').find((s) => s.startsWith('CN=')).replace('CN=', '')
\* a subject is a sequence of <<attribute, value>> lines; without a CN line
\* find() yields undefined and .replace throws
HasCommonName(cert) == \E i \in 1 .. Len(cert) : cert[i][1] = "CN"
CommonName(cert) ==
    cert[CHOOSE i \in 1 .. Len(cert) :
            /\ cert[i][1] = "CN"
            /\ \A j \in 1 .. (i - 1) : cert[j][1] # "CN"][2]

\* prisma.certificate.deleteMany({ where: { id, teamId } })
DeleteCertificateRows(id, teamId) ==
    {c \in certificates : ~(c.id = id /\ c.teamId = teamId)}

\* docker exec coolify-proxy sh -c 'rm -f .../${id}-key.pem .../${id}-cert.pem'
RemoveProxyFiles(id) == proxyFiles \ {id}

deleteCertificates(teamId, id, fail) ==
    /\ IF fail = 1
       THEN /\ thrown' = Failure
            /\ reply' = Catch("deleteCertificates", teamId, Failure)
            /\ UNCHANGED <<proxyFiles, certificates>>
       ELSE IF fail = 2
       THEN /\ proxyFiles' = RemoveProxyFiles(id)
            /\ thrown' = Failure
            /\ reply' = Catch("deleteCertificates", teamId, Failure)
            /\ UNCHANGED certificates
       ELSE /\ proxyFiles' = RemoveProxyFiles(id)
            /\ certificates' = DeleteCertificateRows(id, teamId)
            /\ thrown' = NoError
            /\ reply' = Reply201("deleteCertificates", teamId)
    /\ UNCHANGED <<outside, sshKeys, dockerRegistries, applications, nextId, setting,
                   pending, historyVars>>

\* ---------------------------------------------------------- docker registries
\* the password stored as submitted
PlainPassword(password) == password

\* let encryptedPassword = ''; if (password) encryptedPassword = encrypt(password)
EncryptedPassword(password) == IF password # "" THEN encrypt(password) ELSE ""

\* prisma.dockerRegistry.update({ where: { id }, data: { username, password } })
UpdateRegistry(id, username, encryptedPassword) ==
    {IF r.id = id
     THEN [r EXCEPT !.username = username, !.password = encryptedPassword]
     ELSE r : r \in dockerRegistries}

\* updateMany without the team in its where clause
UpdateManyRegistriesAnyTeam(id, teamId, username, encryptedPassword) ==
    {IF r.id = id
     THEN [r EXCEPT !.username = username, !.password = encryptedPassword]
     ELSE r : r \in dockerRegistries}

\* prisma.dockerRegistry.updateMany({ where: { id, teamId }, data: { username, password } })
UpdateManyRegistries(id, teamId, username, encryptedPassword) ==
    {IF r.id = id /\ r.teamId = teamId
     THEN [r EXCEPT !.username = username, !.password = encryptedPassword]
     ELSE r : r \in dockerRegistries}

\* the rows a setDockerRegistry request of teamId writes
RegistryTargets(teamId, id) ==
    IF teamId = "0"
    THEN {r.id : r \in {x \in dockerRegistries : x.id = id}}
    ELSE {r.id : r \in {x \in dockerRegistries : x.id = id /\ x.teamId = teamId}}

setDockerRegistry(teamId, id, cred, fail) ==
    /\ IF fail = 1
       THEN /\ thrown' = Failure
            /\ reply' = Catch("setDockerRegistry", teamId, Failure)
            /\ UNCHANGED <<dockerRegistries, submittedPassword>>
       ELSE IF teamId = "0" /\ ~(\E r \in dockerRegistries : r.id = id)
       THEN /\ thrown' = RecordNotFound
            /\ reply' = Catch("setDockerRegistry", teamId, RecordNotFound)
            /\ UNCHANGED <<dockerRegistries, submittedPassword>>
       ELSE /\ dockerRegistries' =
                  IF teamId = "0"
                  THEN UpdateRegistry(id, cred.username, EncryptedPassword(cred.password))
                  ELSE UpdateManyRegistries(id, teamId, cred.username,
                                            EncryptedPassword(cred.password))
            /\ submittedPassword' =
                  [i \in DOMAIN submittedPassword |->
                      IF i \in RegistryTargets(teamId, id)
                      THEN cred.password ELSE submittedPassword[i]]
            /\ thrown' = NoError
            /\ reply' = Reply201("setDockerRegistry", teamId)
    /\ UNCHANGED <<outside, sshKeys, certificates, proxyFiles, applications, nextId, setting,
                   pending, submittedKey>>

\* prisma.dockerRegistry.create({ data: { name, url, username, password, isSystemWide, team } })
CreateRegistry(id, teamId, name, url, username, encryptedPassword, isSystemWide) ==
    dockerRegistries \cup
        {[id |-> id, name |-> name, url |-> url, username |-> username,
          password |-> encryptedPassword, isSystemWide |-> isSystemWide,
          teamId |-> teamId]}

addDockerRegistry(teamId, cred, isSystemWide, fail) ==
    /\ nextId < 2 + MaxCreated
    /\ IF fail = 1
       THEN /\ thrown' = Failure
            /\ reply' = Catch("addDockerRegistry", teamId, Failure)
            /\ UNCHANGED <<dockerRegistries, nextId, submittedPassword>>
       ELSE /\ dockerRegistries' =
                  CreateRegistry(nextId, teamId, "registry", "registry.io", cred.username,
                                 EncryptedPassword(cred.password), isSystemWide)
            /\ nextId' = nextId + 1
            /\ submittedPassword' =
                  [i \in DOMAIN submittedPassword \cup {nextId} |->
                      IF i = nextId THEN cred.password ELSE submittedPassword[i]]
            /\ thrown' = NoError
            /\ reply' = Reply201("addDockerRegistry", teamId)
    /\ UNCHANGED <<outside, sshKeys, certificates, proxyFiles, applications, setting,
                   pending, submittedKey>>

\* a deletion that leaves the applications as they are
RepointNoApplication(id) == applications

\* prisma.application.updateMany({ where: { dockerRegistryId: id }, data: { dockerRegistryId: '0' } })
RepointApplications(id) ==
    [a \in DOMAIN applications |-> IF applications[a] = id THEN 0 ELSE applications[a]]

\* prisma.dockerRegistry.deleteMany({ where: { id, teamId } })
DeleteRegistries(id, teamId) ==
    {r \in dockerRegistries : ~(r.id = id /\ r.teamId = teamId)}

deleteDockerRegistry(teamId, id, fail) ==
    /\ IF fail = 1
       THEN /\ thrown' = Failure
            /\ reply' = Catch("deleteDockerRegistry", teamId, Failure)
            /\ UNCHANGED <<applications, dockerRegistries, submittedPassword>>
       ELSE IF fail = 2
       THEN /\ applications' = RepointApplications(id)
            /\ thrown' = Failure
            /\ reply' = Catch("deleteDockerRegistry", teamId, Failure)
            /\ UNCHANGED <<dockerRegistries, submittedPassword>>
       ELSE /\ applications' = RepointApplications(id)
            /\ dockerRegistries' = DeleteRegistries(id, teamId)
            /\ submittedPassword' =
                  Forget(submittedPassword, {r.id : r \in DeleteRegistries(id, teamId)})
            /\ thrown' = NoError
            /\ reply' = Reply201("deleteDockerRegistry", teamId)
    /\ UNCHANGED <<outside, sshKeys, certificates, proxyFiles, nextId, setting,
                   pending, submittedKey>>

\* ------------------------------------------------------------ listAllSettings
\* registries.map: if (registry.password) registry.password = decrypt(registry.password)
DecryptRegistry(registry) ==
    IF registry.password # ""
    THEN [registry EXCEPT !.password = decrypt(registry.password)]
    ELSE registry

\* prisma.sshKey.findMany({ where: { team: { id: teamId } } })
KeysOfTeam(teamId) == {k \in sshKeys : k.teamId = teamId}
\* prisma.dockerRegistry.findMany({ where: { isSystemWide: true } })
PublicRegistries == {r \in dockerRegistries : r.isSystemWide}
\* findMany of the private registries of every team
PrivateRegistriesAnyTeam(teamId) == {r \in dockerRegistries : ~r.isSystemWide}

\* prisma.dockerRegistry.findMany({ where: { team: { id: teamId }, isSystemWide: false } })
PrivateRegistries(teamId) ==
    {r \in dockerRegistries : r.teamId = teamId /\ ~r.isSystemWide}
\* prisma.certificate.findMany({ where: { team: { id: teamId } } })
CertificatesOfTeam(teamId) == {c \in certificates : c.teamId = teamId}

NoCommonName == [status |-> Undefined, message |-> "Cannot read properties of undefined"]

listAllSettings(teamId, fail) ==
    /\ IF fail = 1
       THEN /\ thrown' = Failure
            /\ reply' = Catch("listAllSettings", teamId, Failure)
       ELSE IF \E c \in CertificatesOfTeam(teamId) : ~HasCommonName(c.cert)
       THEN /\ thrown' = NoCommonName
            /\ reply' = Catch("listAllSettings", teamId, NoCommonName)
       ELSE /\ thrown' = NoError
            /\ reply' = ReplyValue("listAllSettings", teamId,
                  [settings |-> setting,
                   certificates |-> {[commonName |-> CommonName(c.cert), id |-> c.id] :
                                        c \in CertificatesOfTeam(teamId)},
                   sshKeys |-> {[id |-> k.id, name |-> k.name,
                                 privateKey |-> decrypt(k.privateKey)] :
                                   k \in KeysOfTeam(teamId)},
                   registries |->
                       [public |-> {DecryptRegistry(r) : r \in PublicRegistries},
                        private |-> {DecryptRegistry(r) : r \in PrivateRegistries(teamId)}]])
    /\ UNCHANGED <<outside, storeVars, pending, historyVars>>

\* --------------------------------------------------------------- saveSettings
\* prisma.setting.update({ where: { id }, data: { doNotTrack, isRegistrationEnabled,
\*   dualCerts, isAutoUpdateEnabled, isDNSCheckEnabled, DNSServers, isAPIDebuggingEnabled } })
UpdateFlags(row, id, body) ==
    IF row.id = id
    THEN [row EXCEPT !.doNotTrack = body.doNotTrack,
                     !.isRegistrationEnabled = body.isRegistrationEnabled,
                     !.dualCerts = body.dualCerts,
                     !.isAutoUpdateEnabled = body.isAutoUpdateEnabled,
                     !.isDNSCheckEnabled = body.isDNSCheckEnabled,
                     !.DNSServers = body.DNSServers,
                     !.isAPIDebuggingEnabled = body.isAPIDebuggingEnabled]
    ELSE row
\* prisma.setting.update({ where: { id }, data: { fqdn } })
UpdateFqdn(row, id, body) == IF row.id = id THEN [row EXCEPT !.fqdn = body.fqdn] ELSE row
\* prisma.setting.update({ where: { id }, data: { proxyDefaultRedirect } })
UpdateRedirect(row, id, body) ==
    IF row.id = id THEN [row EXCEPT !.proxyDefaultRedirect = body.proxyDefaultRedirect] ELSE row
\* prisma.setting.update({ where: { id }, data: { minPort, maxPort } })
UpdatePorts(row, id, body) ==
    IF row.id = id
    THEN [row EXCEPT !.minPort = body.minPort, !.maxPort = body.maxPort]
    ELSE row

\* if (fqdn)
HasFqdn(body) == body.fqdn # ""
\* if (minPort && maxPort)
HasPorts(body) == body.minPort # 0 /\ body.maxPort # 0

\* the awaited call of saveSettings that follows the call pc
AfterCall(pc, body) ==
    CASE pc = "list" -> "flags"
      [] pc = "flags" -> IF HasFqdn(body) THEN "fqdn" ELSE "redirect"
      [] pc = "fqdn" -> "redirect"
      [] pc = "redirect" -> IF HasPorts(body) THEN "ports" ELSE "reply"
      [] pc = "ports" -> "reply"

\* an awaited call of the request of slot p throws: the catch block answers
saveSettingsThrow(p) ==
    /\ saving' = [saving EXCEPT ![p].pc = "done", ![p].outcome = "error"]
    /\ thrown' = Failure
    /\ reply' = Catch("saveSettings", "none", Failure)

\* the request of slot p went through the call pc
saveSettingsAdvance(p) ==
    /\ saving' = [saving EXCEPT ![p].pc = AfterCall(saving[p].pc, saving[p].body)]
    /\ UNCHANGED <<thrown, reply>>

\* const { id } = await listSettings()
saveSettingsList(p, body, fail) ==
    /\ saving[p].pc = "idle"
    /\ IF fail = 1
       THEN /\ saving' = [saving EXCEPT ![p] =
                  [pc |-> "done", body |-> body, id |-> "none", outcome |-> "error"]]
            /\ thrown' = Failure
            /\ reply' = Catch("saveSettings", "none", Failure)
       ELSE /\ saving' = [saving EXCEPT ![p] =
                  [pc |-> "flags", body |-> body, id |-> setting.id, outcome |-> "none"]]
            /\ UNCHANGED <<thrown, reply>>
    /\ UNCHANGED <<storeVars, pending, historyVars, sentry, domainVars, shellVars, statusVars>>

\* the first update of the request of slot p
saveSettingsFlags(p, fail) ==
    /\ saving[p].pc = "flags"
    /\ IF fail = 1
       THEN saveSettingsThrow(p) /\ UNCHANGED setting
       ELSE /\ setting' = UpdateFlags(setting, saving[p].id, saving[p].body)
            /\ saveSettingsAdvance(p)
    /\ UNCHANGED <<sshKeys, certificates, proxyFiles, dockerRegistries, applications, nextId,
                   pending, historyVars, sentry, domainVars, shellVars, statusVars>>

\* the update of fqdn of the request of slot p
saveSettingsFqdn(p, fail) ==
    /\ saving[p].pc = "fqdn"
    /\ IF fail = 1
       THEN saveSettingsThrow(p) /\ UNCHANGED setting
       ELSE /\ setting' = UpdateFqdn(setting, saving[p].id, saving[p].body)
            /\ saveSettingsAdvance(p)
    /\ UNCHANGED <<sshKeys, certificates, proxyFiles, dockerRegistries, applications, nextId,
                   pending, historyVars, sentry, domainVars, shellVars, statusVars>>

\* the update of proxyDefaultRedirect of the request of slot p
saveSettingsRedirect(p, fail) ==
    /\ saving[p].pc = "redirect"
    /\ IF fail = 1
       THEN saveSettingsThrow(p) /\ UNCHANGED setting
       ELSE /\ setting' = UpdateRedirect(setting, saving[p].id, saving[p].body)
            /\ saveSettingsAdvance(p)
    /\ UNCHANGED <<sshKeys, certificates, proxyFiles, dockerRegistries, applications, nextId,
                   pending, historyVars, sentry, domainVars, shellVars, statusVars>>

\* the update of minPort and maxPort of the request of slot p
saveSettingsPorts(p, fail) ==
    /\ saving[p].pc = "ports"
    /\ IF fail = 1
       THEN saveSettingsThrow(p) /\ UNCHANGED setting
       ELSE /\ setting' = UpdatePorts(setting, saving[p].id, saving[p].body)
            /\ saveSettingsAdvance(p)
    /\ UNCHANGED <<sshKeys, certificates, proxyFiles, dockerRegistries, applications, nextId,
                   pending, historyVars, sentry, domainVars, shellVars, statusVars>>

\* after the last update: Sentry.init when doNotTrack === false, reply.code(201).send()
saveSettingsReply(p) ==
    /\ saving[p].pc = "reply"
    /\ sentry' = (sentry \/ saving[p].body.doNotTrack = FALSE)
    /\ saving' = [saving EXCEPT ![p].pc = "done", ![p].outcome = "201"]
    /\ thrown' = NoError
    /\ reply' = Reply201("saveSettings", "none")
    /\ UNCHANGED <<storeVars, pending, historyVars, domainVars, shellVars, statusVars>>

\* saveSettings run from its first call to its reply with no call throwing
saveSettingsAlone(row, body) ==
    LET s1 == UpdateFlags(row, row.id, body)
        s2 == IF HasFqdn(body) THEN UpdateFqdn(s1, row.id, body) ELSE s1
        s3 == UpdateRedirect(s2, row.id, body)
    IN  IF HasPorts(body) THEN UpdatePorts(s3, row.id, body) ELSE s3

\* ---------------------------------------------------------------- checkDomain
Fqdns == {"", "a.io", "A.IO", "b.io"}

\* String.prototype.toLowerCase on the domains of the model
toLowerCase(str) ==
    CASE str = "A.IO" -> "a.io"
      [] OTHER -> str

\* lib/common isDomainConfigured({ id, fqdn }): another resource uses the domain
isDomainConfigured(id, fqdn) == fqdn \in configuredDomains

\* request.hostname.split(':')[0]; a host is <<name, port>>
HostnameOf(host) == host[1]

\* if (fqdn) fqdn = fqdn.toLowerCase()
LoweredFqdn(fqdn) == IF fqdn # "" THEN toLowerCase(fqdn) ELSE fqdn

\* the condition under which only forceSave and dev mode are looked at
DNSCheckUnlessForced(isDNSCheckEnabled, forceSave) == ~forceSave /\ ~isDev

\* if (isDNSCheckEnabled && !forceSave && !isDev)
RunsDNSCheck(isDNSCheckEnabled, forceSave) == isDNSCheckEnabled /\ ~forceSave /\ ~isDev

DomainConfigured == [status |-> Undefined, message |-> "Domain already configured"]
\* what checkDomainsIsValidInDNS throws for a domain that does not resolve to the server
DNSInvalid == [status |-> "500", message |-> "DNS not set correctly or propogated."]

NoCall == [hostname |-> "none", fqdn |-> "none", dualCerts |-> FALSE]
NoCheck == [op |-> "none", fqdn |-> "none", forceSave |-> FALSE, dualCerts |-> FALSE,
            isDNSCheckEnabled |-> FALSE, lookupFailed |-> FALSE, dnsCall |-> NoCall]

\* fail: 1 when isDomainConfigured throws; dnsValid: what the DNS validation finds
checkDomain(id, host, fqdn, forceSave, dualCerts, isDNSCheckEnabled, fail, dnsValid) ==
    LET lowered == LoweredFqdn(fqdn)
        request == [op |-> "checkDomain", fqdn |-> fqdn, forceSave |-> forceSave,
                    dualCerts |-> dualCerts, isDNSCheckEnabled |-> isDNSCheckEnabled,
                    lookupFailed |-> fail = 1, dnsCall |-> NoCall]
        call == [hostname |-> HostnameOf(host), fqdn |-> lowered, dualCerts |-> dualCerts]
    IN  /\ IF fail = 1
           THEN /\ check' = request
                /\ thrown' = Failure
                /\ reply' = Catch("checkDomain", "none", Failure)
           ELSE IF isDomainConfigured(id, lowered)
           THEN /\ check' = request
                /\ thrown' = DomainConfigured
                /\ reply' = Catch("checkDomain", "none", DomainConfigured)
           ELSE IF RunsDNSCheck(isDNSCheckEnabled, forceSave)
           THEN /\ check' = [request EXCEPT !.dnsCall = call]
                /\ IF dnsValid
                   THEN /\ thrown' = NoError
                        /\ reply' = ReplyValue("checkDomain", "none", <<"valid">>)
                   ELSE /\ thrown' = DNSInvalid
                        /\ reply' = Catch("checkDomain", "none", DNSInvalid)
           ELSE /\ check' = request
                /\ thrown' = NoError
                /\ reply' = ReplyValue("checkDomain", "none", <<>>)
        /\ UNCHANGED <<storeVars, pending, historyVars, settingsVars, isDev,
                       configuredDomains, shellVars, statusVars>>

\* ----------------------------------------------------------------------- load
Pathnames == {"/", "/login", "/register", "/settings", "/iam"}
\* what get('/base') resolves to
BaseSettings ==
    { [isRegistrationEnabled |-> TRUE, version |-> "3.12.0"],
      [isRegistrationEnabled |-> FALSE, version |-> "3.12.0"],
      [isRegistrationEnabled |-> FALSE, version |-> "3.12.1"] }
NoBase == [isRegistrationEnabled |-> FALSE, version |-> "none"]
BaseOutcomes == {[ok |-> TRUE, value |-> b] : b \in BaseSettings}
                    \cup {[ok |-> FALSE, value |-> NoBase]}
NoUser == [userId |-> "none", teamId |-> "none", permission |-> "none"]
\* what get('/user') resolves to or rejects with; an error code is the sequence
\* of its parts between '_'
UserOutcomes ==
    { [ok |-> TRUE, value |-> [userId |-> "u", teamId |-> "1", permission |-> "owner"],
       status |-> "none", code |-> <<>>],
      [ok |-> TRUE, value |-> [userId |-> "v", teamId |-> "0", permission |-> "admin"],
       status |-> "none", code |-> <<>>],
      [ok |-> FALSE, value |-> NoUser, status |-> "401", code |-> <<>>],
      [ok |-> FALSE, value |-> NoUser, status |-> "500", code |-> <<"FAST", "FORWARD">>],
      [ok |-> FALSE, value |-> NoUser, status |-> "500", code |-> <<"FAST", "JWT", "EXPIRED">>],
      [ok |-> FALSE, value |-> NoUser, status |-> "500", code |-> <<"ECONNREFUSED">>] }

\* error?.code?.startsWith('FAST_JWT')
StartsWithFastJwt(code) == Len(code) >= 2 /\ code[1] = "FAST" /\ code[2] = "JWT"

\* the pathname test of the catch block, which lets '/register' be redirected
NeedsLoginExceptLogin(pathname) == pathname # "/login"

\* url.pathname !== '/login' && url.pathname !== '/register'
NeedsLogin(pathname) == pathname # "/login" /\ pathname # "/register"

NoLoadError == [status |-> "none", code |-> <<>>]

\* { status: 302, redirect: '/login', props: { baseSettings } }
RedirectToLogin(baseSettings) ==
    [status |-> "302", redirect |-> "/login", error |-> NoLoadError,
     props |-> [baseSettings |-> baseSettings, user |-> NoUser], stuff |-> NoUser]
\* { props: { baseSettings } }
PropsOnly(baseSettings) ==
    [status |-> "none", redirect |-> "none", error |-> NoLoadError,
     props |-> [baseSettings |-> baseSettings, user |-> NoUser], stuff |-> NoUser]
\* { props: { ...response, baseSettings }, stuff: { ...response } }
PropsOfUser(baseSettings, response) ==
    [status |-> "none", redirect |-> "none", error |-> NoLoadError,
     props |-> [baseSettings |-> baseSettings, user |-> response], stuff |-> response]
\* { status: 500, error: new Error(error), props: { baseSettings } }
Error500(baseSettings, error) ==
    [status |-> "500", redirect |-> "none", error |-> error,
     props |-> [baseSettings |-> baseSettings, user |-> NoUser], stuff |-> NoUser]
\* load rejects: get('/base') is outside the try block
Rejected ==
    [status |-> "rejected", redirect |-> "none", error |-> NoLoadError,
     props |-> [baseSettings |-> NoBase, user |-> NoUser], stuff |-> NoUser]

NoPage == [op |-> "none", pathname |-> "none", hadToken |-> FALSE, baseOk |-> FALSE,
           baseSettings |-> NoBase, userRequested |-> FALSE, userOk |-> FALSE,
           userError |-> NoLoadError, result |-> Rejected]

\* the catch block removes the cookie for an unauthorized reply only
RemovesTokenOn401Only(error) == error.status = "401"

\* error?.code?.startsWith('FAST_JWT') || error.status === 401, the condition
\* under which the catch block calls Cookies.remove('token')
RemovesToken(error) == StartsWithFastJwt(error.code) \/ error.status = "401"

\* a catch block that redirects whatever the requested path is
LoadCatchAlwaysRedirect(pathname, baseSettings, error) == RedirectToLogin(baseSettings)

\* the catch block of load
LoadCatch(pathname, baseSettings, error) ==
    IF (StartsWithFastJwt(error.code) \/ error.status = "401") /\ pathname # "/login"
    THEN RedirectToLogin(baseSettings)
    ELSE IF pathname # "/login"
    THEN RedirectToLogin(baseSettings)
    ELSE Error500(baseSettings, [status |-> error.status, code |-> error.code])

load(pathname, base, user) ==
    LET run == [op |-> "load", pathname |-> pathname, hadToken |-> token,
                baseOk |-> base.ok, baseSettings |-> base.value,
                userRequested |-> FALSE, userOk |-> FALSE, userError |-> NoLoadError,
                result |-> Rejected]
    IN  /\ IF ~base.ok
           THEN /\ page' = run
                /\ UNCHANGED token
           ELSE IF token
           THEN IF user.ok
                THEN /\ page' = [run EXCEPT !.userRequested = TRUE, !.userOk = TRUE,
                                            !.result = PropsOfUser(base.value, user.value)]
                     /\ UNCHANGED token
                ELSE /\ page' = [run EXCEPT !.userRequested = TRUE,
                                            !.userError = [status |-> user.status,
                                                           code |-> user.code],
                                            !.result = LoadCatch(pathname, base.value, user)]
                     /\ token' = IF RemovesToken(user) THEN FALSE ELSE token
           ELSE /\ page' = [run EXCEPT !.result =
                               IF NeedsLogin(pathname)
                               THEN RedirectToLogin(base.value)
                               ELSE PropsOnly(base.value)]
                /\ UNCHANGED token
        /\ UNCHANGED <<storeVars, pending, historyVars, thrown, reply, settingsVars,
                       domainVars, statusVars>>

\* logout(): Cookies.remove('token'); window.location.replace('/login')
logout ==
    /\ token' = FALSE
    /\ page' = [NoPage EXCEPT !.op = "logout", !.hadToken = token,
                              !.result = [Rejected EXCEPT !.status = "none",
                                                          !.redirect = "/login"]]
    /\ hops' = 0
    /\ UNCHANGED <<storeVars, pending, historyVars, thrown, reply, settingsVars,
                   domainVars, statusVars>>

\* ------------------------------------------------- onMount / 'start-service'
Services == {"s1", "s2", "s3"}
\* the state numbers a 'start-service' message carries
States == 0 .. MaxState

\* map with map[serviceId] = state
Assigned(map, serviceId, state) ==
    [s \in DOMAIN map \cup {serviceId} |-> IF s = serviceId THEN state ELSE map[s]]

\* a handler that assigns the state and never deletes the entry
StartServiceKeep(map, serviceId, state) == Assigned(map, serviceId, state)

\* $status.service.startup[serviceId] = state;
\* if (state === 0 || state === 1) delete $status.service.startup[serviceId]
StartService(map, serviceId, state) ==
    IF state = 0 \/ state = 1
    THEN [s \in DOMAIN map \ {serviceId} |-> map[s]]
    ELSE Assigned(map, serviceId, state)

\* onMount: io.connect(); io.on('start-service', ...)
onMount ==
    /\ ~listening
    /\ listening' = TRUE
    /\ UNCHANGED <<storeVars, pending, historyVars, thrown, reply, settingsVars,
                   domainVars, shellVars, startup, lastState>>

\* the handler of a 'start-service' message
onStartService(serviceId, state) ==
    /\ listening
    /\ startup' = StartService(startup, serviceId, state)
    /\ lastState' = Assigned(lastState, serviceId, state)
    /\ UNCHANGED <<storeVars, pending, historyVars, thrown, reply, settingsVars,
                   domainVars, shellVars, listening>>

\* ------------------------------------------------------------- initial state
Apps == {"app1", "app2"}

IdleSaving == [pc |-> "idle", body |-> <<>>, id |-> "none", outcome |-> "none"]

IdlePending == [pc |-> "idle", teamId |-> "none", name |-> "none",
                privateKey |-> "none", found |-> FALSE]

InitSetting ==
    [id |-> "0", fqdn |-> "", doNotTrack |-> FALSE, isRegistrationEnabled |-> FALSE,
     dualCerts |-> FALSE, isAutoUpdateEnabled |-> FALSE, isDNSCheckEnabled |-> TRUE,
     DNSServers |-> "", isAPIDebuggingEnabled |-> FALSE, proxyDefaultRedirect |-> "",
     minPort |-> 9000, maxPort |-> 9100]

\* the seeded default registry '0', one private registry and one certificate of
\* team '1', and applications that use the registries
InitStore ==
    /\ sshKeys = {}
    /\ certificates = {[id |-> 1, teamId |-> "1",
                        cert |-> << <<"O", "acme">>, <<"CN", "a.io">> >>]}
    /\ proxyFiles = {1}
    /\ dockerRegistries =
          {[id |-> 0, name |-> "Docker Hub", url |-> "docker.io", username |-> "u1",
            password |-> "", isSystemWide |-> TRUE, teamId |-> "0"],
           [id |-> 1, name |-> "registry", url |-> "registry.io", username |-> "u2",
            password |-> encrypt("p1"), isSystemWide |-> FALSE, teamId |-> "1"]}
    /\ applications = ("app1" :> 1 @@ "app2" :> 0)
    /\ nextId = 2
    /\ setting = InitSetting
    /\ submittedKey = [i \in {} |-> ""]
    /\ submittedPassword = (0 :> "" @@ 1 :> "p1")

Init ==
    /\ InitStore
    /\ pending = [p \in Slots |-> IdlePending]
    /\ thrown = NoError
    /\ reply = NoReply
    /\ saving = [p \in Savers |-> IdleSaving]
    /\ sentry = FALSE
    /\ isDev = FALSE
    /\ configuredDomains = {}
    /\ check = NoCheck
    /\ token = FALSE
    /\ page = NoPage
    /\ hops = 0
    /\ listening = FALSE
    /\ startup = [s \in {} |-> 0]
    /\ lastState = [s \in {} |-> 0]

\* the framework sends the handler's outcome; the server takes the next request
Deliver ==
    /\ reply # NoReply
    /\ reply' = NoReply
    /\ thrown' = NoError
    /\ UNCHANGED <<outside, storeVars, pending, historyVars>>

\* the server is ready for the next request
Idle == reply = NoReply

\* requests handled one after the other
Next ==
    \/ Deliver
    \/ \E t \in Teams, f \in 0 .. 1 : Idle /\ listAllSettings(t, f)
    \/ \E t \in Teams, b \in SSHKeyBodies, f \in 0 .. 2 :
          Idle /\ saveSSHKey(t, b.name, b.privateKey, f)
    \/ \E t \in Teams, i \in Ids, f \in 0 .. 1 : Idle /\ deleteSSHKey(t, i, f)
    \/ \E t \in Teams, i \in Ids, f \in 0 .. 2 : Idle /\ deleteCertificates(t, i, f)
    \/ \E t \in Teams, i \in Ids, c \in RegistryCreds, f \in 0 .. 1 :
          Idle /\ setDockerRegistry(t, i, c, f)
    \/ \E t \in Teams, c \in RegistryCreds, w \in BOOLEAN, f \in 0 .. 1 :
          Idle /\ addDockerRegistry(t, c, w, f)
    \/ \E t \in Teams, i \in Ids, f \in 0 .. 2 : Idle /\ deleteDockerRegistry(t, i, f)

Spec == Init /\ [][Next]_vars

\* ---------------------------------------------------------------- SpecSSH
\* saveSSHKey requests that interleave at their awaits, with deleteSSHKey
NextSSH ==
    \/ \E p \in Slots, t \in Teams, b \in SSHKeyBodies, f \in 0 .. 1 :
          saveSSHKeyFind(p, t, b.name, b.privateKey, f)
    \/ \E p \in Slots, f \in 0 .. 1 : saveSSHKeyCreate(p, f)
    \/ \E t \in Teams, i \in Ids, f \in 0 .. 1 : deleteSSHKey(t, i, f)

SpecSSH == Init /\ [][NextSSH]_vars

\* ------------------------------------------------------------ SpecSettings
\* saveSettings requests that interleave at their awaits
NextSettings ==
    \/ \E p \in Savers, b \in SettingsBodies, f \in 0 .. 1 : saveSettingsList(p, b, f)
    \/ \E p \in Savers, f \in 0 .. 1 : saveSettingsFlags(p, f)
    \/ \E p \in Savers, f \in 0 .. 1 : saveSettingsFqdn(p, f)
    \/ \E p \in Savers, f \in 0 .. 1 : saveSettingsRedirect(p, f)
    \/ \E p \in Savers, f \in 0 .. 1 : saveSettingsPorts(p, f)
    \/ \E p \in Savers : saveSettingsReply(p)

SpecSettings == Init /\ [][NextSettings]_vars

\* -------------------------------------------------------------- SpecDomain
InitDomain ==
    /\ InitStore
    /\ pending = [p \in Slots |-> IdlePending]
    /\ thrown = NoError
    /\ reply = NoReply
    /\ saving = [p \in Savers |-> IdleSaving]
    /\ sentry = FALSE
    /\ isDev \in BOOLEAN
    /\ configuredDomains \in {{}, {"a.io"}}
    /\ check = NoCheck
    /\ token = FALSE
    /\ page = NoPage
    /\ hops = 0
    /\ listening = FALSE
    /\ startup = [s \in {} |-> 0]
    /\ lastState = [s \in {} |-> 0]

NextDomain ==
    \E q \in Fqdns, force \in BOOLEAN, dual \in BOOLEAN, dns \in BOOLEAN,
       f \in 0 .. 1, valid \in BOOLEAN :
        checkDomain(1, <<"coolify.io", "3000">>, q, force, dual, dns, f, valid)

SpecDomain == InitDomain /\ [][NextDomain]_vars

\* ---------------------------------------------------------------- SpecLoad
InitLoad ==
    /\ InitStore
    /\ pending = [p \in Slots |-> IdlePending]
    /\ thrown = NoError
    /\ reply = NoReply
    /\ saving = [p \in Savers |-> IdleSaving]
    /\ sentry = FALSE
    /\ isDev = FALSE
    /\ configuredDomains = {}
    /\ check = NoCheck
    /\ token \in BOOLEAN
    /\ page = NoPage
    /\ hops = 0
    /\ listening = FALSE
    /\ startup = [s \in {} |-> 0]
    /\ lastState = [s \in {} |-> 0]

\* the browser opens a page
Navigate ==
    /\ \E path \in Pathnames, b \in BaseOutcomes, u \in UserOutcomes : load(path, b, u)
    /\ hops' = 0

\* the browser goes where load or logout sent it
FollowRedirect ==
    /\ page.result.redirect # "none"
    /\ hops < MaxHops
    /\ \E b \in BaseOutcomes, u \in UserOutcomes : load(page.result.redirect, b, u)
    /\ hops' = IF page.op = "load" THEN hops + 1 ELSE 0

NextLoad ==
    \/ Navigate
    \/ FollowRedirect
    \/ logout

SpecLoad == InitLoad /\ [][NextLoad]_vars

\* -------------------------------------------------------------- SpecStatus
\* the layout is mounted and 'start-service' messages arrive in any order
NextStatus ==
    \/ onMount
    \/ \E s \in Services, st \in States : onStartService(s, st)

SpecStatus == Init /\ [][NextStatus]_vars

\* ======================================================================
\* Properties
\* ======================================================================
DeleteOps == {"deleteSSHKey", "deleteCertificates", "deleteDockerRegistry"}

\* C1: a delete request of team T (deleteSSHKey, deleteCertificates or
\* deleteDockerRegistry, with any id, whether or not a call fails) removes no
\* SshKey, Certificate or DockerRegistry row whose teamId differs from T.
TeamScopedDeletion ==
    [][reply'.op \in DeleteOps =>
         /\ \A k \in sshKeys : k.teamId # reply'.teamId => k \in sshKeys'
         /\ \A c \in certificates : c.teamId # reply'.teamId => c \in certificates'
         /\ \A r \in dockerRegistries : r.teamId # reply'.teamId => r \in dockerRegistries']_vars

\* C1 witness: team '0' asked to delete registry 1 of team '1' (its application
\* was repointed), got 201, and the row is still stored.
TeamScopedDeletionWitness ==
    /\ reply.op = "deleteDockerRegistry" /\ reply.code = "201" /\ reply.teamId = "0"
    /\ applications["app1"] = 0
    /\ \E r \in dockerRegistries : r.id = 1 /\ r.teamId = "1"

\* C2 (as claimed): a delete request of team T that names a row T does not own
\* changes nothing: no application's dockerRegistryId, no proxy file, no row.
ForeignDeleteIsNoOp ==
    [][/\ \A t \in Teams, i \in Ids :
            (/\ deleteDockerRegistry(t, i, 0)
             /\ \E r \in dockerRegistries : r.id = i /\ r.teamId # t)
            => UNCHANGED <<applications, dockerRegistries>>
       /\ \A t \in Teams, i \in Ids :
            (/\ deleteCertificates(t, i, 0)
             /\ \E c \in certificates : c.id = i /\ c.teamId # t)
            => UNCHANGED <<proxyFiles, certificates>>]_vars

SecretsRoundTrip ==
    /\ \A k \in sshKeys :
          /\ k.privateKey = encrypt(submittedKey[k.id])
          /\ k.privateKey # submittedKey[k.id]
    /\ \A r \in dockerRegistries :
          IF submittedPassword[r.id] = ""
          THEN r.password = ""
          ELSE /\ r.password = encrypt(submittedPassword[r.id])
               /\ r.password # submittedPassword[r.id]
    /\ (reply.op = "listAllSettings" /\ reply.code = "200") =>
          /\ \A k \in reply.body.sshKeys : k.privateKey = submittedKey[k.id]
          /\ \A r \in reply.body.registries.public \cup reply.body.registries.private :
                r.password = submittedPassword[r.id]

\* C7 witness: a listing that returns a saved key, a registry whose password was
\* replaced after its creation, and a registry with the empty password.
SecretsRoundTripWitness ==
    /\ reply.op = "listAllSettings" /\ reply.code = "200"
    /\ \E k \in reply.body.sshKeys : k.privateKey = "k2"
    /\ \E r \in reply.body.registries.private : r.id = 1 /\ r.password = ""
    /\ \E r \in reply.body.registries.public : r.id = 0 /\ r.password = "p1"

\* C8: listAllSettings of team T returns only SSH keys and certificates of T,
\* as private registries only non-system-wide registries of T, and as public
\* registries exactly the system-wide ones.
TeamScopedReads ==
    (reply.op = "listAllSettings" /\ reply.code = "200") =>
        /\ \A k \in reply.body.sshKeys :
              \E row \in sshKeys : row.id = k.id /\ row.teamId = reply.teamId
        /\ \A c \in reply.body.certificates :
              \E row \in certificates : row.id = c.id /\ row.teamId = reply.teamId
        /\ \A r \in reply.body.registries.private :
              \E row \in dockerRegistries :
                  row.id = r.id /\ row.teamId = reply.teamId /\ ~row.isSystemWide
        /\ {r.id : r \in reply.body.registries.public} =
              {row.id : row \in {x \in dockerRegistries : x.isSystemWide}}

\* C8 witness: team '0' lists while team '1' owns a key, a certificate and a
\* private registry.
TeamScopedReadsWitness ==
    /\ reply.op = "listAllSettings" /\ reply.code = "200" /\ reply.teamId = "0"
    /\ \E k \in sshKeys : k.teamId = "1"
    /\ \E c \in certificates : c.teamId = "1"
    /\ \E r \in dockerRegistries : r.teamId = "1" /\ ~r.isSystemWide

\* the row r with the credentials of the request body written to it
Written(r, cred, r2) ==
    /\ r2.id = r.id /\ r2.teamId = r.teamId /\ r2.isSystemWide = r.isSystemWide
    /\ r2.name = r.name /\ r2.url = r.url
    /\ r2.username = cred.username
    /\ IF cred.password = "" THEN r2.password = "" ELSE decrypt(r2.password) = cred.password

\* C10: setDockerRegistry of a team other than '0' writes the username and
\* password of the registry with the given id only when the caller's team owns
\* it and leaves every other registry as it was; a caller of team '0' writes
\* the registry with the given id whichever team owns it.
RegistryUpdateAuthorization ==
    [][reply'.op = "setDockerRegistry" =>
       \A t \in Teams, i \in Ids, c \in RegistryCreds :
          setDockerRegistry(t, i, c, 0) =>
              /\ \A r \in dockerRegistries :
                    (r.id # i \/ (t # "0" /\ r.teamId # t)) => r \in dockerRegistries'
              /\ \A r \in dockerRegistries :
                    (r.id = i /\ (t = "0" \/ r.teamId = t)) =>
                        \E r2 \in dockerRegistries' : Written(r, c, r2)
              /\ Cardinality(dockerRegistries') = Cardinality(dockerRegistries)]_vars

\* C10 witness: team '0' has written registry 1, which team '1' owns.
RegistryUpdateAuthorizationWitness ==
    /\ reply.op = "setDockerRegistry" /\ reply.code = "201" /\ reply.teamId = "0"
    /\ \E r \in dockerRegistries : r.id = 1 /\ r.teamId = "1" /\ r.username = "u1"

\* C3 (as claimed): after any interleaving of saveSSHKey requests no two stored
\* SshKey rows have the same name.
SSHKeyNamesUnique ==
    \A k1, k2 \in sshKeys : k1.name = k2.name => k1.id = k2.id

\* the orders in which the requests of all slots can run one after the other
SaveOrders ==
    {o \in [1 .. MaxSavers -> Savers] : \A i, j \in 1 .. MaxSavers : o[i] = o[j] => i = j}

RECURSIVE RunInOrder(_, _, _)
RunInOrder(o, i, row) ==
    IF i > MaxSavers THEN row
    ELSE RunInOrder(o, i + 1, saveSettingsAlone(row, saving[o[i]].body))

\* C4 (as claimed): when the saveSettings requests have all replied 201, the
\* Setting row is the one that running them one after the other, in some
\* order, yields.
ConcurrentSavesSerializable ==
    (\A p \in Savers : saving[p].pc = "done" /\ saving[p].outcome = "201") =>
        \E o \in SaveOrders : setting = RunInOrder(o, 1, InitSetting)

\* C6: without a token cookie and with /base answering, load returns status 302
\* with redirect '/login' for every path but '/login' and '/register', and for
\* those two returns props with baseSettings, no redirect, and asks no /user.
NoTokenRedirect ==
    (page.op = "load" /\ ~page.hadToken /\ page.baseOk) =>
        IF page.pathname \notin {"/login", "/register"}
        THEN page.result.status = "302" /\ page.result.redirect = "/login"
        ELSE /\ page.result.redirect = "none"
             /\ page.result.status = "none"
             /\ page.result.props.baseSettings = page.baseSettings
             /\ ~page.userRequested

\* C6 witness: a visitor without a token opens '/register' and gets the page.
NoTokenRedirectWitness ==
    /\ page.op = "load" /\ ~page.hadToken /\ page.baseOk
    /\ page.pathname = "/register"
    /\ page.result.redirect = "none"

\* C9: a lower-cased fqdn that is already configured is rejected with 'Domain
\* already configured' whatever forceSave and isDNSCheckEnabled are; otherwise
\* the DNS validation runs exactly when isDNSCheckEnabled, not forceSave and
\* not dev mode, and in every other case the handler returns {} without it.
DomainAcceptanceOrder ==
    (check.op = "checkDomain" /\ ~check.lookupFailed) =>
        IF LoweredFqdn(check.fqdn) \in configuredDomains
        THEN /\ reply.code = "error"
             /\ reply.body.message = "Domain already configured"
             /\ check.dnsCall = NoCall
        ELSE IF check.isDNSCheckEnabled /\ ~check.forceSave /\ ~isDev
        THEN /\ check.dnsCall # NoCall
             /\ check.dnsCall.fqdn = LoweredFqdn(check.fqdn)
        ELSE /\ check.dnsCall = NoCall
             /\ reply.code = "200"
             /\ reply.body = <<>>

\* C9 witness: an upper-case spelling of a configured domain, sent with
\* forceSave, is rejected.
DomainAcceptanceOrderWitness ==
    /\ check.op = "checkDomain" /\ check.fqdn = "A.IO" /\ check.forceSave
    /\ "a.io" \in configuredDomains
    /\ reply.code = "error" /\ reply.body.message = "Domain already configured"

\* ---------------------------------------------------------------------------
\* C11: load removes the token cookie exactly when the /user request was made
\* and failed with status 401 or with an error code beginning 'FAST_JWT'; when
\* /user succeeds, when there was no token (so /user is not requested), when
\* /user fails with any other error, and when /base fails, the cookie after
\* load is the cookie before it.
UserFailedUnauthorized ==
    /\ page.userRequested
    /\ ~page.userOk
    /\ \/ page.userError.status = "401"
       \/ /\ Len(page.userError.code) >= 2
          /\ page.userError.code[1] = "FAST"
          /\ page.userError.code[2] = "JWT"

CookieRemovedOnlyWhenUnauthorized ==
    page.op = "load" =>
        IF UserFailedUnauthorized
        THEN page.hadToken /\ ~token
        ELSE token = page.hadToken

\* load ran with a token, /user failed with a 'FAST_JWT' code and a status other
\* than 401, and the cookie is gone
CookieRemovedOnlyWhenUnauthorizedWitness ==
    /\ page.op = "load"
    /\ page.hadToken
    /\ page.userRequested
    /\ page.userError = [status |-> "500", code |-> <<"FAST", "JWT", "EXPIRED">>]
    /\ ~token

\* ---------------------------------------------------------------------------
\* C12: no redirect loop. Whenever load returns a redirect its target is
\* '/login' and the requested path is not '/login', and the load that a followed
\* redirect leads to never redirects again: from any path, cookie state and
\* /user outcome, at most one redirect of load is followed before a result that
\* is not a redirect.
NoRedirectLoop ==
    /\ hops <= 1
    /\ (page.op = "load" /\ page.result.redirect # "none") =>
          /\ page.result.redirect = "/login"
          /\ page.pathname # "/login"
          /\ hops = 0

\* the redirect was followed with the cookie still present, /user failed again
\* on '/login', and load answered with the 500 error instead of a redirect
NoRedirectLoopWitness ==
    /\ page.op = "load"
    /\ hops = 1
    /\ page.pathname = "/login"
    /\ page.baseOk
    /\ page.hadToken
    /\ page.userRequested
    /\ ~page.userOk
    /\ page.result.status = "500"
    /\ page.result.redirect = "none"

\* ---------------------------------------------------------------------------
\* C13: after any sequence of 'start-service' messages the start-up map never
\* holds 0 or 1; a service has an entry exactly when its last message carried a
\* state other than 0 and 1, and the entry is that state. As the last message
\* of a service is only changed by a message for that service, a message
\* leaves the entries of other services as they were.
StartupHoldsLastState ==
    /\ \A s \in DOMAIN startup : startup[s] # 0 /\ startup[s] # 1
    /\ DOMAIN startup = {s \in DOMAIN lastState : lastState[s] \notin {0, 1}}
    /\ \A s \in DOMAIN startup : startup[s] = lastState[s]

\* the last message of s1 carried state 1 and s1 has no entry, while s2 and s3
\* hold the states of their last messages
StartupHoldsLastStateWitness ==
    /\ "s1" \in DOMAIN lastState /\ lastState["s1"] = 1
    /\ "s1" \notin DOMAIN startup
    /\ "s2" \in DOMAIN startup /\ startup["s2"] = 2
    /\ "s3" \in DOMAIN startup /\ startup["s3"] = 3

\* ---------------------------------------------------------------------------
\* C14: registry references stay valid across deletion. After any sequence of
\* requests, every application's dockerRegistryId is the id of a stored
\* registry or is '0': no application refers to a removed registry other than
\* '0', because deleteDockerRegistry repoints the applications of the registry
\* to '0' before it deletes the row. (References to '0' are valid as long as
\* registry '0' itself is not deleted.)
RegistryReferencesValid ==
    \A a \in DOMAIN applications :
        \/ applications[a] = 0
        \/ \E r \in dockerRegistries : r.id = applications[a]

\* team '1' has deleted its registry 1, which app1 used, and app1 now uses '0'
RegistryReferencesValidWitness ==
    /\ reply.op = "deleteDockerRegistry" /\ reply.code = "201" /\ reply.teamId = "1"
    /\ ~\E r \in dockerRegistries : r.id = 1
    /\ applications["app1"] = 0
    /\ \E r \in dockerRegistries : r.id = 0

====
